---- MODULE Spec2Model ----
(***************************************************************************)
(* A model of scytale's encoding engine: the alphabet, the message         *)
(* splitter (unwrap / wrap), the numeric codec (direct and packed "hexa"   *)
(* mode), CryptoNumber, the keyed alphabet permutation and the CryptoBox   *)
(* encrypt / decrypt pipeline.                                             *)
(*                                                                         *)
(* A Python string is a sequence of one-character strings.  A machine      *)
(* integer that may need 32 bits or more (a packed code value) is a Word:  *)
(* the sequence of its base-4 digits, least significant first, so that     *)
(* (w >> 2k) & 3 is the digit w[k+1] and adding g * 4**j to a value whose   *)
(* digit j is still 0 sets that digit to g.                                *)
(***************************************************************************)
EXTENDS Integers, Sequences, FiniteSets, TLC

VARIABLES
    pc,          \* the operation that produced the current state
    msg,         \* the message handed to the operation
    key,         \* the key handed to the operation (NoKey for None)
    self_encoder,      \* the plug-in of the CryptoBox in use
    self_hexa,         \* the codec mode in use (CryptoBox._hexa)
    self_double_count, \* CryptoBox._double_count
    cipher_code, \* the local cipher_code of the last encrypt or decrypt
    self_calls,  \* the (value, pos) of each plug-in call it made, in order
    msg0,        \* unwrap's cleaned string
    wlen,        \* unwrap's run lengths
    plainchrs,   \* unwrap's separators
    args,        \* the arguments handed to CryptoNumber(...)
    fill,        \* its fill keyword
    out,         \* the value the last operation returned
    out2,        \* the value the operation before it returned
    permuted_alphabet,  \* alphabet.py's module-level _permuted_alphabet
    module_alphabet,    \* alphabet.py's module-level _alphabet
    returned,    \* key -> what get_alphabet_permutation first returned for it
    calls,       \* the number of get_alphabet_permutation calls so far
    permutations,  \* encoder.permutations and decoder.permutations
    used,        \* per function, the keys it has been called with so far
    frames,      \* the frames of the permutation cipher's calls
    cipher_calls \* the number of permutation cipher calls so far

selfVars == <<self_encoder, self_hexa, self_double_count>>
boxVars == <<selfVars, cipher_code, self_calls>>
splitVars == <<msg0, wlen, plainchrs>>
numVars == <<args, fill>>
cipherVars == <<permutations, used, frames, cipher_calls>>
permVars ==
    <<permuted_alphabet, module_alphabet, returned, calls, cipherVars>>

vars == <<pc, msg, key, boxVars, splitVars, numVars, out, out2, permVars>>

-----------------------------------------------------------------------------
(* Bounds of the model *)

MaxLen == 3
MaxRun == 17
MaxStride == 3
MaxBlocks == 2
MaxSeq == 4
MaxKeyLen == 2
MaxCalls == 3

-----------------------------------------------------------------------------
(* tools/alphabet.py *)

alphabet ==
    <<"=",
      "A", "B", "C", "D", "E", "F", "G", "H", "I", "J", "K", "L", "M",
      "N", "O", "P", "Q", "R", "S", "T", "U", "V", "W", "X", "Y", "Z",
      "a", "b", "c", "d", "e", "f", "g", "h", "i", "j", "k", "l", "m",
      "n", "o", "p", "q", "r", "s", "t", "u", "v", "w", "x", "y", "z",
      "+", "-", "%", "&", "/", "(", ")", "!", "#", "@", "£">>

get_alphabet == alphabet

alphalen == Len(get_alphabet)

\* mutant: only "=" and the letters are alphabet symbols
InAlphabet_letters_only(c) == \E i \in 1..53 : alphabet[i] = c

InAlphabet(c) == \E i \in 1..alphalen : alphabet[i] = c

\* str.find: the 0-based index of c, -1 when c is not in the alphabet
char2num(c) ==
    IF InAlphabet(c)
    THEN (CHOOSE i \in 1..alphalen : alphabet[i] = c) - 1
    ELSE -1

\* _alphabet[n % len]: Python's % is non-negative for a positive modulus
num2char(n) == alphabet[(n % alphalen) + 1]

-----------------------------------------------------------------------------
(* Python helpers *)

Fill(c, k) == [i \in 1..k |-> c]

\* s[a:b] for 0 <= a, Python's clamping of b included
Slice(s, a, b) ==
    LET hi == IF b > Len(s) THEN Len(s) ELSE b
    IN  IF a >= hi THEN <<>> ELSE SubSeq(s, a + 1, hi)

RECURSIVE SumSeq(_)
SumSeq(s) == IF s = <<>> THEN 0 ELSE s[1] + SumSeq(Tail(s))

-----------------------------------------------------------------------------
(* tools/alphaencoder.py: the message splitter *)

\* the loop of unwrap: st = [msg0, wlen, plainchrs, count] after the scan
RECURSIVE unwrap_scan(_, _)
unwrap_scan(m, st) ==
    IF m = <<>> THEN st
    ELSE LET c == Head(m)
         IN  IF InAlphabet(c)
             THEN unwrap_scan(Tail(m),
                      [st EXCEPT !.count = @ + 1, !.msg0 = Append(@, c)])
             ELSE unwrap_scan(Tail(m),
                      [st EXCEPT !.wlen = Append(@, st.count), !.count = 0,
                                 !.plainchrs = Append(@, c)])

\* mutant: the outer % 16 is missing, an aligned string gets a whole block
unwrap_pad_full_block(n) == 16 - (n % 16)

\* msg0 += (16 - len(msg0) % 16) % 16 * "="
unwrap_pad(n) == (16 - (n % 16)) % 16

unwrap(m) ==
    LET st == unwrap_scan(m, [msg0 |-> <<>>, wlen |-> <<>>,
                              plainchrs |-> <<>>, count |-> 0])
    IN  [msg0 |-> st.msg0 \o Fill("=", unwrap_pad(Len(st.msg0))),
         wlen |-> Append(st.wlen, st.count),
         plainchrs |-> st.plainchrs]

\* the zip loop of wrap over (wlen[:-1], plainchrs): [msg, head] after it
RECURSIVE wrap_loop(_, _, _, _)
wrap_loop(m0, ls, cs, acc) ==
    IF ls = <<>> \/ cs = <<>> THEN acc
    ELSE wrap_loop(m0, Tail(ls), Tail(cs),
             [msg |-> (acc.msg \o Slice(m0, acc.head, acc.head + Head(ls)))
                        \o <<Head(cs)>>,
              head |-> acc.head + Head(ls)])

\* mutant: crop is ignored
wrap_tail_never_crops(m0, head, last, crop) == Slice(m0, head, Len(m0))

wrap_tail(m0, head, last, crop) ==
    IF crop THEN Slice(m0, head, head + last) ELSE Slice(m0, head, Len(m0))

wrap(m0, wl, pcs, crop) ==
    LET acc == wrap_loop(m0, SubSeq(wl, 1, Len(wl) - 1), pcs,
                         [msg |-> <<>>, head |-> 0])
    IN  acc.msg \o wrap_tail(m0, acc.head, wl[Len(wl)], crop)

-----------------------------------------------------------------------------
(* tools/alphaencoder.py: the numeric codec *)

\* mutant: the shift is k, not 2 * k
bits2_shift_k(p, k) == (p \div (2 ^ k)) % 4

\* (p >> 2 * k & 3): Python's >> floors, so -1 (a character str.find did not
\* find) gives 3 for every k
bits2(p, k) == (p \div (4 ^ k)) % 4

\* (c >> 2 * k & 3) of a Word
digit(w, k) == IF k + 1 <= Len(w) THEN w[k + 1] ELSE 0

\* the body of "for k in range(3)": n += g * 4**j; j += 1; emit n at j >= 16.
\* st.n holds the digits 0..j-1 of n, so j = Len(st.n)
encode_digit(st, g) ==
    LET n == Append(st.n, g)
    IN  IF Len(n) >= 16 THEN [code |-> Append(st.code, n), n |-> <<>>]
                        ELSE [code |-> st.code, n |-> n]

encode_char(st, c) ==
    LET p == char2num(c)
    IN  encode_digit(encode_digit(encode_digit(st, bits2(p, 0)), bits2(p, 1)),
                     bits2(p, 2))

\* "for c in word", over all the blocks (Len(st.n) >= 0 only makes the
\* evaluation of st strict)
RECURSIVE encode_hexa(_, _)
encode_hexa(s, st) ==
    IF Len(st.n) >= 0 /\ s # <<>>
    THEN encode_hexa(Tail(s), encode_char(st, Head(s)))
    ELSE st.code

encode_unwrapped(s, hexa) ==
    IF hexa
    THEN \* range(len(msg0) // 16): a trailing partial block is not read
         encode_hexa(Slice(s, 0, 16 * (Len(s) \div 16)),
                     [code |-> <<>>, n |-> <<>>])
    ELSE [i \in 1..Len(s) |-> char2num(s[i])]

\* the body of "for k in range(16)": n += digit * 4**j; j += 1; at j >= 3
\* msg0 += num2char(n)
decode_digit(st, d) ==
    LET n == st.n + d * (4 ^ st.j)
    IN  IF st.j + 1 >= 3
        THEN [msg0 |-> Append(st.msg0, num2char(n)), n |-> 0, j |-> 0]
        ELSE [msg0 |-> st.msg0, n |-> n, j |-> st.j + 1]

\* "for k in range(16)" (st.j >= 0 only makes the evaluation of st strict)
RECURSIVE decode_word(_, _, _)
decode_word(st, w, k) ==
    IF st.j >= 0 /\ k < 16
    THEN decode_word(decode_digit(st, digit(w, k)), w, k + 1)
    ELSE st

\* "for c in code"
RECURSIVE decode_hexa(_, _)
decode_hexa(code, st) ==
    IF st.j >= 0 /\ code # <<>>
    THEN decode_hexa(Tail(code), decode_word(st, Head(code), 0))
    ELSE st.msg0

decode_to_unwrapped(code, hexa) ==
    IF hexa
    THEN decode_hexa(code, [msg0 |-> <<>>, n |-> 0, j |-> 0])
    ELSE [i \in 1..Len(code) |-> num2char(code[i])]

encode_wrapped(m, hexa) ==
    LET u == unwrap(m)
    IN  [code |-> encode_unwrapped(u.msg0, hexa), wlen |-> u.wlen,
         plainchrs |-> u.plainchrs]

decode_and_wrap(code, wl, pcs, hexa, crop) ==
    wrap(decode_to_unwrapped(code, hexa), wl, pcs, crop)

-----------------------------------------------------------------------------
(* Inputs *)

\* None as a key: a sequence that is no string of characters
NoKey == <<"None">>
NoCipher == "none"
Nothing == <<>>

Seqs(S, n) == UNION {[1..k -> S] : k \in 0..n}

\* two alphabet symbols (indices 1 and 63), the filler, and two separators
Chars == {"A", "£", "=", " ", "."}

\* every short message, and long ones whose alphabet content crosses the
\* 16-symbol block boundary
Messages ==
    Seqs(Chars, MaxLen)
    \cup {(pre \o Fill("B", k)) \o post :
              pre \in Seqs(Chars, 1), post \in Seqs(Chars, 1), k \in 0..MaxRun}
    \cup {<<"A", "B", "!", "C", "D">>}

\* the number of alphabet characters of m
AlphaCount(m) == Cardinality({i \in 1..Len(m) : InAlphabet(m[i])})

-----------------------------------------------------------------------------
(* The message splitter as a state machine: unwrap a message, then wrap the *)
(* record with or without crop.                                            *)

\* the parts of the state an operation does not use
NoBox ==
    /\ self_encoder = NoCipher /\ self_hexa = FALSE
    /\ self_double_count = FALSE
    /\ cipher_code = Nothing /\ self_calls = Nothing
NoSplit == msg0 = Nothing /\ wlen = Nothing /\ plainchrs = Nothing
NoNumber == args = Nothing /\ fill = Nothing
NoCaches ==
    /\ permutations = Nothing /\ used = Nothing
    /\ frames = Nothing /\ cipher_calls = 0
NoPerm ==
    /\ permuted_alphabet = Nothing /\ module_alphabet = alphabet
    /\ returned = Nothing /\ calls = 0
    /\ NoCaches

InitSplit ==
    /\ pc = "message"
    /\ msg \in Messages
    /\ key = NoKey
    /\ NoBox /\ NoSplit /\ NoNumber /\ NoPerm
    /\ out = Nothing /\ out2 = Nothing

Unwrap ==
    /\ pc = "message"
    /\ LET u == unwrap(msg)
       IN  /\ msg0' = u.msg0
           /\ wlen' = u.wlen
           /\ plainchrs' = u.plainchrs
    /\ pc' = "unwrapped"
    /\ UNCHANGED <<msg, key, boxVars, numVars, out, out2, permVars>>

Wrap(crop) ==
    /\ pc = "unwrapped"
    /\ out' = [crop |-> crop, msg |-> wrap(msg0, wlen, plainchrs, crop)]
    /\ pc' = "wrapped"
    /\ UNCHANGED <<msg, key, boxVars, splitVars, numVars, out2, permVars>>

NextSplit == Unwrap \/ (\E crop \in BOOLEAN : Wrap(crop))

SpecSplit == InitSplit /\ [][NextSplit]_vars

\* C3: wrap of unwrap(m) with crop is m; without crop it is m followed by
\* exactly (16 - n mod 16) mod 16 filler symbols, n the number of alphabet
\* characters of m
C3_WrapUnwrapRoundTrip ==
    pc = "wrapped" =>
        out.msg = IF out.crop THEN msg
                  ELSE msg \o Fill("=", (16 - (AlphaCount(msg) % 16)) % 16)

\* a message with separators and 17 alphabet characters, wrapped without crop
C3_Witness ==
    /\ pc = "wrapped" /\ ~out.crop
    /\ AlphaCount(msg) = 17 /\ Len(plainchrs) = 2
    /\ Len(out.msg) = Len(msg) + 15

\* a cropped wrap of a message whose last run is followed by padding
C3_WitnessCrop ==
    /\ pc = "wrapped" /\ out.crop
    /\ AlphaCount(msg) = 3 /\ out.msg = msg

\* C9 (as claimed): unwrap of the empty message returns 16 filler symbols,
\* run_lengths = [0] and no separators
C9_EmptyUnwrapSixteenFillers ==
    (pc = "unwrapped" /\ msg = <<>>) =>
        /\ msg0 = Fill("=", 16)
        /\ wlen = <<0>>
        /\ plainchrs = <<>>

\* C9 (amended): unwrap of the empty message returns the empty cleaned
\* string (0 is already a multiple of 16), run_lengths = [0] and no
\* separators
C9_EmptyUnwrapEmpty ==
    (pc = "unwrapped" /\ msg = <<>>) =>
        /\ msg0 = <<>>
        /\ wlen = <<0>>
        /\ plainchrs = <<>>

C9_Witness == pc = "unwrapped" /\ msg = <<>> /\ Len(wlen) = 1

\* C10 (as claimed): unwrap("AB!CD") gives cleaned "ABCD" before padding,
\* run_lengths = [2, 2] and separators "!"
C10_BangIsSeparator ==
    (pc = "unwrapped" /\ msg = <<"A", "B", "!", "C", "D">>) =>
        /\ msg0 = <<"A", "B", "C", "D">> \o Fill("=", 12)
        /\ wlen = <<2, 2>>
        /\ plainchrs = <<"!">>

\* C10 (amended): "!" is an alphabet symbol, so unwrap("AB!CD") gives
\* cleaned "AB!CD" before padding (11 fillers follow), run_lengths = [5] and
\* no separators
C10_BangIsAlphabet ==
    (pc = "unwrapped" /\ msg = <<"A", "B", "!", "C", "D">>) =>
        /\ msg0 = <<"A", "B", "!", "C", "D">> \o Fill("=", 11)
        /\ wlen = <<5>>
        /\ plainchrs = <<>>

C10_Witness ==
    pc = "unwrapped" /\ msg = <<"A", "B", "!", "C", "D">> /\ Len(msg0) = 16

-----------------------------------------------------------------------------
(* The numeric codec as a state machine: encode a block-aligned string of  *)
(* alphabet symbols, then decode the code.                                 *)

\* strings of 0..MaxBlocks blocks that start at any symbol of the alphabet
\* and step through it with a stride
AlignedStrings ==
    {[i \in 1..(16 * b) |-> alphabet[((a + (i - 1) * d) % alphalen) + 1]] :
        a \in 0..(alphalen - 1), d \in 0..MaxStride, b \in 0..MaxBlocks}

InitCodec ==
    /\ pc = "string"
    /\ msg \in AlignedStrings
    /\ self_hexa \in BOOLEAN
    /\ key = NoKey /\ self_encoder = NoCipher /\ self_double_count = FALSE
    /\ cipher_code = Nothing /\ self_calls = Nothing
    /\ NoSplit /\ NoNumber /\ NoPerm
    /\ out = Nothing /\ out2 = Nothing

Encode ==
    /\ pc = "string"
    /\ out' = encode_unwrapped(msg, self_hexa)
    /\ pc' = "encoded"
    /\ UNCHANGED <<msg, key, boxVars, splitVars, numVars, out2, permVars>>

Decode ==
    /\ pc = "encoded"
    /\ out' = decode_to_unwrapped(out, self_hexa)
    /\ out2' = out
    /\ pc' = "decoded"
    /\ UNCHANGED <<msg, key, boxVars, splitVars, numVars, permVars>>

NextCodec == Encode \/ Decode

SpecCodec == InitCodec /\ [][NextCodec]_vars

\* C4: for a string s of alphabet symbols whose length is a multiple of 16,
\* decode_to_unwrapped(encode_unwrapped(s, hexa), hexa) = s in both modes
C4_CodecInverse == pc = "decoded" => out = msg

\* two packed blocks starting at the last symbol of the alphabet: 6 words
C4_Witness ==
    /\ pc = "decoded" /\ self_hexa
    /\ Len(msg) = 32 /\ msg[1] = "£" /\ msg[2] # msg[1]
    /\ Len(out2) = 6

C4_WitnessDirect ==
    pc = "decoded" /\ ~self_hexa /\ Len(msg) = 16 /\ out2[1] = 63

-----------------------------------------------------------------------------
(* tools/alphaencoder.py: CryptoNumber *)

\* An element of a raw sequence is [int, v]: an integer v, or (int = FALSE)
\* a value that is no int, such as a float.  The arguments of
\* CryptoNumber(...) are [form, s, l]: "str" for CryptoNumber(s), "seq" for
\* CryptoNumber(l) with one iterable l, "args" for CryptoNumber(*l).
\* fill is <<>> for None and <<v>> for the value v.

\* the Word an int64 array element holds for a small non-negative int
Word(n) == [k \in 1..16 |-> bits2(n, k - 1)]

ValueError == [ok |-> FALSE, error |-> "ValueError", data |-> <<>>]
IndexError == [ok |-> FALSE, error |-> "IndexError", data |-> <<>>]

\* mutant: the fill keyword does not excuse a length that is no multiple of 3
triplet_assert_ignores_fill(n, f) == n % 3 = 0

\* assert len(l) % 3 == 0 or not fill is None
triplet_assert(n, f) == n % 3 = 0 \/ f # <<>>

\* assert isinstance(e, (int, npinteger)) for every e
integers_assert(l) == \A i \in 1..Len(l) : l[i].int

\* the shape __new__ allocates
new_llen(n, f) == IF f # <<>> /\ n % 3 # 0 THEN n + 3 - (n % 3) ELSE n

\* __new__: the length of the array, or the error raised
CryptoNumber_new(a, f) ==
    IF a.form = "str"
    THEN [ok |-> TRUE, llen |-> Len(encode_wrapped(a.s, TRUE).code)]
    ELSE IF ~triplet_assert(Len(a.l), f) THEN ValueError
    ELSE IF ~integers_assert(a.l) THEN ValueError
    ELSE [ok |-> TRUE, llen |-> new_llen(Len(a.l), f)]

\* __init__: the values stored by "for i, e in enumerate(l): self[i] = e"
CryptoNumber_init_values(a, f) ==
    IF a.form = "str" THEN encode_wrapped(a.s, TRUE).code
    ELSE LET l == [i \in 1..Len(a.l) |-> Word(a.l[i].v)]
         IN  IF f # <<>> /\ Len(l) % 3 # 0
             THEN l \o Fill(Word(f[1]), 3 - (Len(l) % 3))
             ELSE l

\* CryptoNumber(...): __new__, then __init__ on the array it returned.  An
\* element __init__ does not store keeps what the allocation left there.
CryptoNumber(a, f) ==
    LET obj == CryptoNumber_new(a, f)
        l == CryptoNumber_init_values(a, f)
    IN  IF ~obj.ok THEN obj
        ELSE IF Len(l) > obj.llen THEN IndexError
        ELSE [ok |-> TRUE, error |-> "",
              data |-> [i \in 1..obj.llen |->
                            IF i <= Len(l) THEN l[i] ELSE <<"uninitialized">>]]

\* str.strip(c): leading and trailing c removed
RECURSIVE lstrip(_, _)
lstrip(s, c) == IF s # <<>> /\ Head(s) = c THEN lstrip(Tail(s), c) ELSE s

RECURSIVE rstrip(_, _)
rstrip(s, c) ==
    IF s # <<>> /\ s[Len(s)] = c THEN rstrip(SubSeq(s, 1, Len(s) - 1), c)
    ELSE s

strip(s, c) == rstrip(lstrip(s, c), c)

\* __str__
CryptoNumber_str(data) ==
    strip(decode_to_unwrapped(data, TRUE), get_alphabet[1])

-----------------------------------------------------------------------------
(* CryptoNumber as a state machine: construct a number from a string or    *)
(* from a raw sequence, then take its string form.                         *)

Elements == {[int |-> TRUE, v |-> 0], [int |-> TRUE, v |-> 7],
             [int |-> FALSE, v |-> 2]}

Fills == {<<>>, <<0>>, <<5>>}

NumberArgs ==
    {[form |-> "str", s |-> m, l |-> <<>>] : m \in Messages}
    \cup {[form |-> f, s |-> <<>>, l |-> l] :
              f \in {"seq", "args"}, l \in Seqs(Elements, MaxSeq)}

InitNumber ==
    /\ pc = "arguments"
    /\ args \in NumberArgs
    /\ fill \in Fills
    /\ msg = Nothing /\ key = NoKey
    /\ NoBox /\ NoSplit /\ NoPerm
    /\ out = Nothing /\ out2 = Nothing

New ==
    /\ pc = "arguments"
    /\ out' = CryptoNumber(args, fill)
    /\ pc' = IF out'.ok THEN "constructed" ELSE "raised"
    /\ UNCHANGED <<msg, key, boxVars, splitVars, numVars, out2, permVars>>

Str ==
    /\ pc = "constructed"
    /\ out' = CryptoNumber_str(out.data)
    /\ out2' = out
    /\ pc' = "str"
    /\ UNCHANGED <<msg, key, boxVars, splitVars, numVars, permVars>>

NextNumber == New \/ Str

SpecNumber == InitNumber /\ [][NextNumber]_vars

\* the argument is a raw sequence of integers
RawIntegers == args.form # "str" /\ integers_assert(args.l)

\* C6 (as claimed): for a string s of alphabet characters only,
\* str(CryptoNumber(s)) is s with its trailing fillers removed and nothing
\* else removed
C6_StrIsTrailingTrim ==
    (pc = "str" /\ args.form = "str" /\ AlphaCount(args.s) = Len(args.s)) =>
        out = rstrip(args.s, "=")

\* what the code does: the fillers are removed at both ends
C6_StrIsTrimAtBothEnds ==
    (pc = "str" /\ args.form = "str" /\ AlphaCount(args.s) = Len(args.s)) =>
        out = strip(args.s, "=")

\* C8: from a raw integer sequence, a length that is no multiple of 3 with
\* no fill raises ValueError and produces no object; with a fill the
\* sequence is right-padded with it to the next multiple of 3 (unchanged when
\* already a multiple); every number constructed has a length that is a
\* multiple of 3
C8_TripletConstruction ==
    /\ (pc \in {"constructed", "raised"} /\ RawIntegers) =>
          LET n == Len(args.l)
              l == [i \in 1..n |-> Word(args.l[i].v)]
          IN  /\ (n % 3 # 0 /\ fill = <<>>) =>
                     (pc = "raised" /\ out = ValueError)
              /\ (n % 3 = 0) => (pc = "constructed" /\ out.data = l)
              /\ (n % 3 # 0 /\ fill # <<>>) =>
                     /\ pc = "constructed"
                     /\ out.data = l \o Fill(Word(fill[1]), 3 - (n % 3))
    /\ pc = "constructed" => (out.ok /\ Len(out.data) % 3 = 0)

\* a sequence of 4 integers padded with the fill 5 to 6 entries
C8_Witness ==
    /\ pc = "constructed" /\ RawIntegers
    /\ Len(args.l) = 4 /\ fill = <<5>>
    /\ Len(out.data) = 6 /\ out.data[6] = Word(5)

\* a sequence of 2 integers and no fill: the construction raised
C8_WitnessRaised ==
    pc = "raised" /\ RawIntegers /\ Len(args.l) = 2 /\ fill = <<>>

-----------------------------------------------------------------------------
(* tools/alphabet.py: the keyed alphabet permutation *)

\* A key is a Python string; None is NoKey.  A call returns [ok, value]:
\* the string returned, or (ok = FALSE) the name of the exception raised.

Returned(v) == [ok |-> TRUE, value |-> v]
Raised(e) == [ok |-> FALSE, value |-> <<e>>]

\* the loop of code_divide, i from len(code) - 1 down to 1 (0-based): here
\* code[i + 1] is Python's code[i]
RECURSIVE code_divide_loop(_, _, _, _)
code_divide_loop(code, i, n, base) ==
    IF Len(code) >= 0 /\ i >= 1
    THEN code_divide_loop(
             [code EXCEPT ![i] = @ + (code[i + 1] % n) * base,
                          ![i + 1] = @ \div n],
             i - 1, n, base)
    ELSE code

\* code_divide: the code after the in-place division, and the remainder
code_divide(code, n, base) ==
    LET c == code_divide_loop(code, Len(code) - 1, n, base)
    IN  [code |-> [c EXCEPT ![1] = @ \div n], r |-> c[1] % n]

\* key_code after "for i, n in enumerate(coded_key)", from index i on
RECURSIVE perturb(_, _, _, _)
perturb(key_code, coded_key, i, step) ==
    IF Len(key_code) >= 0 /\ i < Len(coded_key)
    THEN LET pos == (i * step) % alphalen
         IN  perturb([key_code EXCEPT
                          ![pos + 1] = (@ + coded_key[i + 1]) % alphalen],
                     coded_key, i + 1, step)
    ELSE key_code

\* "for i in range(2, 1 + len(get_alphabet()))": the remainders, in the
\* order they are appended
RECURSIVE lehmer_digits(_, _, _)
lehmer_digits(key_code, i, permutation) ==
    IF Len(permutation) >= 0 /\ i <= alphalen
    THEN LET d == code_divide(key_code, i, alphalen)
         IN  lehmer_digits(d.code, i + 1, Append(permutation, d.r))
    ELSE permutation

Reverse(s) == [i \in 1..Len(s) |-> s[Len(s) + 1 - i]]

\* list.pop(i): the element and the list without it; IndexError when i is
\* out of range
CanPop(l, i) == 0 <= i /\ i < Len(l)
Pop(l, i) == [e |-> l[i + 1],
              l |-> SubSeq(l, 1, i) \o SubSeq(l, i + 2, Len(l))]

\* "for i in permutation: permuted_alphabet_code.append(alphabet.pop(i))",
\* then the pop(0) of the last element
RECURSIVE pop_all(_, _, _)
pop_all(permutation, l, acc) ==
    IF Len(acc) >= 0 /\ permutation # <<>>
    THEN IF CanPop(l, Head(permutation))
         THEN LET p == Pop(l, Head(permutation))
              IN  pop_all(Tail(permutation), p.l, Append(acc, p.e))
         ELSE Raised("IndexError")
    ELSE IF CanPop(l, 0) THEN Returned(Append(acc, Pop(l, 0).e))
         ELSE Raised("IndexError")

\* max(1, alphalen // len(key)), for len(key) > 0
key_step(n) == IF alphalen \div n > 1 THEN alphalen \div n ELSE 1

\* get_alphabet_permutation(key) with the module's _permuted_alphabet = base
get_alphabet_permutation(base, k) ==
    IF k = NoKey THEN Returned(base)
    ELSE IF Len(k) = 0 THEN Raised("ZeroDivisionError")
    ELSE LET coded_key == [i \in 1..Len(k) |-> char2num(k[i])]
             key_code == perturb([i \in 1..Len(base) |-> char2num(base[i])],
                                 coded_key, 0, key_step(Len(k)))
             permutation == Reverse(lehmer_digits(key_code, 2, <<>>))
             code == pop_all(permutation,
                             [i \in 1..alphalen |-> char2num(get_alphabet[i])],
                             <<>>)
         IN  IF code.ok
             THEN Returned([i \in 1..Len(code.value) |->
                                num2char(code.value[i])])
             ELSE code

\* mutant: the call stores its result in the module's _permuted_alphabet
globals_after_call_stores_result(base, alpha, k) ==
    LET r == get_alphabet_permutation(base, k)
    IN  [permuted_alphabet |-> IF r.ok THEN r.value ELSE base,
         alphabet |-> alpha]

\* the module's globals after a call: key_code and alphabet are new lists
\* built from the strings, which the call never assigns
globals_after_call(base, alpha, k) ==
    [permuted_alphabet |-> base, alphabet |-> alpha]

-----------------------------------------------------------------------------
(* The permutation generator as a state machine: the module is imported    *)
(* (the baseline is drawn), then get_alphabet_permutation is called with   *)
(* one key after another.                                                  *)

\* rng.permutation of the alphabet: the generator is outside the source, so
\* the baseline is any of these permutations (i -> a * i + b mod 64, a odd)
Baselines ==
    {[i \in 1..alphalen |-> alphabet[((a * (i - 1) + b) % alphalen) + 1]] :
        <<a, b>> \in {<<1, 0>>, <<63, 63>>, <<5, 17>>}}

\* an alphabet symbol (index 1) and a character that is no alphabet symbol
KeyChars == {"A", "?"}

\* None, the empty key, short keys, and a key longer than the alphabet
PermKeys ==
    {NoKey} \cup Seqs(KeyChars, MaxKeyLen) \cup {Fill("z", alphalen + 1)}

\* get_alphabet_permutation on the inputs of the model, evaluated once
PermTable ==
    LET t == [x \in Baselines \X PermKeys |->
                  get_alphabet_permutation(x[1], x[2])]
    IN  IF DOMAIN t = Baselines \X PermKeys /\ t = t THEN t ELSE t

permutation_of(base, k) ==
    IF <<base, k>> \in DOMAIN PermTable THEN PermTable[<<base, k>>]
    ELSE get_alphabet_permutation(base, k)

InitPerm ==
    /\ pc = "imported"
    /\ permuted_alphabet \in Baselines
    /\ module_alphabet = alphabet
    /\ returned = <<>> /\ calls = 0
    /\ NoCaches
    /\ msg = Nothing /\ key = NoKey
    /\ NoBox /\ NoSplit /\ NoNumber
    /\ out = Nothing /\ out2 = Nothing

Call(k) ==
    /\ pc \in {"imported", "called"}
    /\ calls < MaxCalls
    /\ key' = k
    /\ out' = permutation_of(permuted_alphabet, k)
    /\ LET g == globals_after_call(permuted_alphabet, module_alphabet, k)
       IN  /\ permuted_alphabet' = g.permuted_alphabet
           /\ module_alphabet' = g.alphabet
    /\ returned' = IF \E i \in 1..Len(returned) : returned[i].key = k
                   THEN returned
                   ELSE Append(returned, [key |-> k, result |-> out'])
    /\ calls' = calls + 1
    /\ pc' = "called"
    /\ UNCHANGED <<msg, boxVars, splitVars, numVars, out2, cipherVars>>

NextPerm == \E k \in PermKeys : Call(k)

SpecPerm == InitPerm /\ [][NextPerm]_vars

\* s holds every alphabet symbol exactly once
IsPermutation(s) ==
    /\ Len(s) = alphalen
    /\ {s[i] : i \in 1..Len(s)} = {alphabet[i] : i \in 1..alphalen}

\* C5 (as claimed): for any key, the empty key and None included,
\* get_alphabet_permutation returns a permutation of the alphabet
C5_AnyKeyGivesPermutation ==
    pc = "called" => (out.ok /\ IsPermutation(out.value))

\* what the code does: the empty key raises ZeroDivisionError, every other
\* key gives a permutation and no pop is out of range
C5_NonEmptyKeyGivesPermutation ==
    pc = "called" =>
        IF key = <<>> THEN out = Raised("ZeroDivisionError")
        ELSE out.ok /\ IsPermutation(out.value)

-----------------------------------------------------------------------------
(* cyphers/permutation.py *)

\* A key is [type, v]: None, a str (a reordered alphabet) or a CryptoNumber
\* (v is its array).  A cache (encoder.permutations, decoder.permutations)
\* is a function from the keys of the dict to the lists stored under them.
NoneKey == [type |-> "NoneType", v |-> <<>>]
StrKey(s) == [type |-> "str", v |-> s]
NumberKey(data) == [type |-> "CryptoNumber", v |-> data]

\* encoder.permutations = {} and decoder.permutations = {}
EmptyCache == <<>>

\* isinstance(key, CryptoNumber)
is_cryptonumber(k) == k.type = "CryptoNumber"

\* the key of the dict: tuple(key) for a CryptoNumber, else key itself
cache_key(k) == IF is_cryptonumber(k) THEN [type |-> "tuple", v |-> k.v] ELSE k

\* "try: permutation = encoder.permutations[...]  except KeyError:"
cache_has(cache, k) == cache_key(k) \in DOMAIN cache

cache_get(cache, k) == cache[cache_key(k)]

\* encoder.permutations[key] = permutation
cache_put(cache, k, permutation) ==
    LET ck == cache_key(k)
    IN  [x \in DOMAIN cache \cup {ck} |->
             IF x = ck THEN permutation ELSE cache[x]]

\* the branches of "except KeyError" that choose new_alphabet
new_alphabet(base, k) ==
    IF is_cryptonumber(k) THEN permutation_of(base, CryptoNumber_str(k.v))
    ELSE IF k = NoneKey THEN permutation_of(base, NoKey)
    ELSE Returned(k.v)

\* l[i] of a Python list: a negative i counts from the end
PyHas(l, i) == (0 - Len(l)) <= i /\ i < Len(l)
PyAt(l, i) == l[(i % Len(l)) + 1]

\* "for i in inv_permutation: permutation[inv_permutation[i]] = i"
RECURSIVE invert_loop(_, _, _)
invert_loop(inv_permutation, todo, permutation) ==
    IF Len(permutation) >= 0 /\ todo # <<>>
    THEN LET i == Head(todo)
         IN  IF ~PyHas(inv_permutation, i) THEN Raised("IndexError")
             ELSE LET t == PyAt(inv_permutation, i)
                  IN  IF ~PyHas(permutation, t) THEN Raised("IndexError")
                      ELSE invert_loop(inv_permutation, Tail(todo),
                               [permutation EXCEPT
                                    ![(t % Len(permutation)) + 1] = i])
    ELSE Returned(permutation)

\* [char2num(c) for c in new_alphabet]
codes_of(a) == [i \in 1..Len(a) |-> char2num(a[i])]

\* permutation = len(new_alphabet) * [0], then the loop
invert(inv_permutation) ==
    invert_loop(inv_permutation, inv_permutation,
                [i \in 1..Len(inv_permutation) |-> 0])

\* the list built from new_alphabet = a (fn is "encoder" or "decoder"), or
\* the exception that came instead of it
permutation_from(fn, a) ==
    IF ~a.ok THEN a
    ELSE IF fn = "encoder" THEN Returned(codes_of(a.value))
    ELSE invert(codes_of(a.value))

\* the list a call computes after a KeyError, or the exception raised
\* before it has one
compute_permutation(fn, base, k) == permutation_from(fn, new_alphabet(base, k))

\* CryptoNumber(s) for a string s
number_of(s) == CryptoNumber([form |-> "str", s |-> s, l |-> <<>>], <<>>).data

\* None, a reordered alphabet, and the numbers of "A", "" and "=": the last
\* two have the empty string as str(key)
CipherKeys ==
    {NoneKey, StrKey(Reverse(alphabet)), NumberKey(number_of(<<"A">>)),
     NumberKey(number_of(<<>>)), NumberKey(number_of(<<"=">>))}

Functions == {"encoder", "decoder"}

\* a function with every value computed
Tabulated(t) == IF DOMAIN t = DOMAIN t /\ t = t THEN t ELSE t

\* compute_permutation on the inputs of the model, evaluated once
CipherTable ==
    Tabulated([x \in Functions \X Baselines \X CipherKeys |->
                   compute_permutation(x[1], x[2], x[3])])

computed_permutation(fn, base, k) == CipherTable[<<fn, base, k>>]

\* return permutation[n]
return_item(permutation, n) ==
    IF PyHas(permutation, n) THEN Returned(PyAt(permutation, n))
    ELSE Raised("IndexError")

\* a whole call encoder(n, pos, key) or decoder(n, pos, key) on the cache of
\* the function: the cache after it and what it returned or raised
after_miss(cache, n, k, p) ==
    IF ~p.ok THEN [cache |-> cache, result |-> p]
    ELSE [cache |-> cache_put(cache, k, p.value),
          result |-> return_item(p.value, n)]

permutation_call(fn, cache, base, n, k) ==
    IF cache_has(cache, k)
    THEN [cache |-> cache, result |-> return_item(cache_get(cache, k), n)]
    ELSE after_miss(cache, n, k, computed_permutation(fn, base, k))

-----------------------------------------------------------------------------
(* The permutation cipher as a state machine: the module is imported (both *)
(* caches are empty), then encoder and decoder are called one after        *)
(* another.                                                                *)

MaxCipherCalls == 3

\* the first and the last code value of the direct codec
CipherCodes == {0, alphalen - 1}

Positions == {0, 7}

\* the frame of a call: its arguments n and key (pos is not read), the
\* statement it is at, its locals
Frame(fn, n, k, at, missed, permutation, result) ==
    [fn |-> fn, n |-> n, key |-> k, at |-> at,
     missed |-> missed, permutation |-> permutation, result |-> result]

\* "encoder.permutations = {}" and "decoder.permutations = {}" at import
ImportCipher ==
    /\ permuted_alphabet \in Baselines
    /\ module_alphabet = alphabet
    /\ returned = <<>> /\ calls = 0
    /\ permutations = [fn \in Functions |-> EmptyCache]
    /\ used = [fn \in Functions |-> {}]
    /\ cipher_calls = 0
    /\ msg = Nothing /\ key = NoKey
    /\ NoBox /\ NoSplit /\ NoNumber
    /\ out = Nothing /\ out2 = Nothing

InitCipher == pc = "loaded" /\ frames = <<>> /\ ImportCipher

\* the call has left the cache and the result c
CipherReturns(fn, n, k, c) ==
    /\ permutations' = [permutations EXCEPT ![fn] = c.cache]
    /\ out' = c.result
    /\ frames' = <<Frame(fn, n, k, "done", ~cache_has(permutations[fn], k),
                         <<>>, c.result)>>

\* a call fn(n, pos, key), from its first statement to its return
CipherCall(fn, n, pos, k) ==
    /\ pc \in {"loaded", "returned"}
    /\ cipher_calls < MaxCipherCalls
    /\ CipherReturns(fn, n, k,
           permutation_call(fn, permutations[fn], permuted_alphabet, n, k))
    /\ used' = [used EXCEPT ![fn] = @ \cup {k}]
    /\ key' = k
    /\ cipher_calls' = cipher_calls + 1
    /\ pc' = "returned"
    /\ UNCHANGED <<msg, boxVars, splitVars, numVars, out2, permuted_alphabet,
                   module_alphabet, returned, calls>>

EncoderCall ==
    \E n \in CipherCodes, pos \in Positions, k \in CipherKeys :
        CipherCall("encoder", n, pos, k)

DecoderCall ==
    \E n \in CipherCodes, pos \in Positions, k \in CipherKeys :
        CipherCall("decoder", n, pos, k)

NextCipher == EncoderCall \/ DecoderCall

SpecCipher == InitCipher /\ [][NextCipher]_vars

\* what fn(n, pos, key) returns or raises when the cache is empty
from_empty_cache(fn, n, k) ==
    permutation_call(fn, EmptyCache, permuted_alphabet, n, k).result

\* no entry of a cache is removed or altered by a step
EntriesKept ==
    \A fn \in Functions : \A ck \in DOMAIN permutations[fn] :
        ck \in DOMAIN permutations'[fn]
            /\ permutations'[fn][ck] = permutations[fn][ck]

\* C12 (as claimed): after any sequence of encoder and decoder calls the
\* cache of each function holds an entry for every key the function was
\* called with and for no other key; no entry is ever removed or altered;
\* and every call returns what it returns starting from an empty cache
C12_CacheHoldsEveryKeyUsed ==
    /\ [](pc \in {"loaded", "returned"} =>
             /\ \A fn \in Functions :
                   DOMAIN permutations[fn] = {cache_key(k) : k \in used[fn]}
             /\ pc = "returned" =>
                   out = from_empty_cache(frames[1].fn, frames[1].n, key))
    /\ [][pc' = "returned" => EntriesKept]_vars

\* what the code does: a cache holds the keys of the calls that got as far
\* as the insertion, each with the list derived from its key.  A call with a
\* CryptoNumber whose string is empty raises ZeroDivisionError before it,
\* every time, and leaves no entry
C12_CacheHoldsKeysOfInsertions ==
    /\ [](pc \in {"loaded", "returned"} =>
             /\ \A fn \in Functions :
                   /\ DOMAIN permutations[fn] =
                          {cache_key(k) : k \in
                              {u \in used[fn] :
                                  computed_permutation(fn, permuted_alphabet,
                                                       u).ok}}
                   /\ \A k \in used[fn] :
                         cache_has(permutations[fn], k) =>
                             cache_get(permutations[fn], k) =
                                 computed_permutation(fn, permuted_alphabet,
                                                      k).value
             /\ pc = "returned" =>
                   out = from_empty_cache(frames[1].fn, frames[1].n, key))
    /\ [][pc' = "returned" => EntriesKept]_vars

\* the calls with an empty-string number raise and leave the caches as
\* they were, while another key has its entry
C12_EmptyStringKeyUncached ==
    /\ pc = "returned" /\ cipher_calls = 3
    /\ key = NumberKey(number_of(<<"=">>))
    /\ out = Raised("ZeroDivisionError")
    /\ used["decoder"] = {key, NoneKey}
    /\ DOMAIN permutations["decoder"] = {NoneKey}

-----------------------------------------------------------------------------
(* The permutation cipher called from two threads: each thread makes one   *)
(* call, and a step of a thread is one statement group of the call, the    *)
(* dict lookup and the dict insertion being single operations.             *)

Threads == {1, 2}

\* the frame of a call that is about to start
StartFrames ==
    {Frame(fn, n, k, "try", FALSE, <<>>, Nothing) :
        fn \in Functions, n \in CipherCodes, k \in CipherKeys}

InitThreads ==
    /\ pc = "spawned"
    /\ frames \in [Threads -> StartFrames]
    /\ ImportCipher

\* mutant: a lookup that misses stores an empty list under the key, to be
\* replaced when the list is computed
cache_after_lookup_reserves(cache, k) ==
    IF cache_has(cache, k) THEN cache ELSE cache_put(cache, k, <<>>)

\* the dict after "try: ... except KeyError:": a lookup stores nothing
cache_after_lookup(cache, k) == cache

\* the frame after the try statement: the list found, or the KeyError caught
lookup_frame(f, cache) ==
    IF cache_has(cache, f.key)
    THEN [f EXCEPT !.permutation = cache_get(cache, f.key), !.at = "return"]
    ELSE [f EXCEPT !.missed = TRUE, !.at = "except"]

\* the frame after the except branch has computed p, or has raised
compute_frame(f, p) ==
    IF ~p.ok THEN [f EXCEPT !.result = p, !.at = "done"]
    ELSE [f EXCEPT !.permutation = p.value, !.at = "insert"]

\* the frame after "return permutation[n]"
return_frame(f) ==
    [f EXCEPT !.result = return_item(f.permutation, f.n), !.at = "done"]

\* thread t runs "try: permutation = encoder.permutations[...]"
Lookup(t) ==
    /\ pc \in {"spawned", "stepped"}
    /\ frames[t].at = "try"
    /\ frames' = [frames EXCEPT
                     ![t] = lookup_frame(@, permutations[frames[t].fn])]
    /\ permutations' = [permutations EXCEPT
                           ![frames[t].fn] =
                               cache_after_lookup(@, frames[t].key)]
    /\ used' = [used EXCEPT ![frames[t].fn] = @ \cup {frames[t].key}]
    /\ cipher_calls' = cipher_calls + 1
    /\ pc' = "stepped"
    /\ UNCHANGED <<msg, key, boxVars, splitVars, numVars, out, out2,
                   permuted_alphabet, module_alphabet, returned, calls>>

\* thread t runs the except branch up to the list it builds
Compute(t) ==
    /\ pc = "stepped"
    /\ frames[t].at = "except"
    /\ frames' = [frames EXCEPT
                     ![t] = compute_frame(@,
                                computed_permutation(frames[t].fn,
                                    permuted_alphabet, frames[t].key))]
    /\ UNCHANGED <<pc, msg, key, boxVars, splitVars, numVars, out, out2,
                   permuted_alphabet, module_alphabet, returned, calls,
                   permutations, used, cipher_calls>>

\* thread t runs "encoder.permutations[key] = permutation"
Insert(t) ==
    /\ pc = "stepped"
    /\ frames[t].at = "insert"
    /\ permutations' = [permutations EXCEPT
                           ![frames[t].fn] =
                               cache_put(@, frames[t].key,
                                         frames[t].permutation)]
    /\ frames' = [frames EXCEPT ![t].at = "return"]
    /\ UNCHANGED <<pc, msg, key, boxVars, splitVars, numVars, out, out2,
                   permuted_alphabet, module_alphabet, returned, calls,
                   used, cipher_calls>>

\* thread t runs "return permutation[n]"
Return(t) ==
    /\ pc = "stepped"
    /\ frames[t].at = "return"
    /\ frames' = [frames EXCEPT ![t] = return_frame(@)]
    /\ UNCHANGED <<pc, msg, key, boxVars, splitVars, numVars, out, out2,
                   permuted_alphabet, module_alphabet, returned, calls,
                   permutations, used, cipher_calls>>

NextThreads ==
    \E t \in Threads : Lookup(t) \/ Compute(t) \/ Insert(t) \/ Return(t)

SpecThreads == InitThreads /\ [][NextThreads]_vars

\* the key a dict key was made from
key_of(ck) == IF ck.type = "tuple" THEN NumberKey(ck.v) ELSE ck

\* a finished call has returned something else than it returns when it
\* runs alone
WrongReturn ==
    \E t \in Threads :
        /\ frames[t].at = "done"
        /\ frames[t].result #
               from_empty_cache(frames[t].fn, frames[t].n, frames[t].key)

\* a cache holds an entry that is not the list derived from its key
WrongEntry ==
    \E fn \in Functions : \E ck \in DOMAIN permutations[fn] :
        permutations[fn][ck] #
            computed_permutation(fn, permuted_alphabet, key_of(ck)).value

\* both calls are over, they were calls of one function with one key, both
\* lookups missed (they came before both insertions) and both calls went on
\* to insert and to return
Raced ==
    /\ \A t \in Threads :
          frames[t].at = "done" /\ frames[t].missed /\ frames[t].result.ok
    /\ frames[1].fn = frames[2].fn
    /\ frames[1].key = frames[2].key

\* C13 (as claimed): without a lock, when the lookup, compute and insert
\* steps of two concurrent calls interleave (here: both lookups miss before
\* either call inserts), a call returns a value different from the one it
\* returns alone, or the cache is left with an entry that differs from the
\* permutation derived from its key
C13_RaceBreaksCache ==
    (pc = "stepped" /\ Raced) => (WrongReturn \/ WrongEntry)

\* what the code does: in every interleaving of the two calls, every
\* finished call has returned (or raised) what it does alone and every
\* entry of a cache is the list derived from its key; a race only makes
\* both calls compute the list and the later insertion store an equal one
C13_InterleavingsAreBenign ==
    pc \in {"spawned", "stepped"} => (~WrongReturn /\ ~WrongEntry)

\* both threads called the decoder with the number of "A", both missed,
\* both inserted, both returned
C13_Witness ==
    /\ pc = "stepped" /\ Raced
    /\ frames[1].fn = "decoder"
    /\ frames[1].key = NumberKey(number_of(<<"A">>))
    /\ frames[1].n # frames[2].n
    /\ DOMAIN permutations["decoder"] = {cache_key(frames[1].key)}

-----------------------------------------------------------------------------
(* cyphers/caesar.py and the call-backs of a wide plug-in *)

\* caesar._shift
caesar_shift(pos, k) == char2num(k[(pos % Len(k)) + 1])

caesar_encoder(n, pos, k) == (n + caesar_shift(pos, k)) % alphalen

caesar_decoder(n, pos, k) == (n - caesar_shift(pos, k)) % alphalen

\* m & 2**32 - 1 and m >> 32 of a Word
low32(m) == [k \in 1..16 |-> digit(m, k - 1)]
high32(m) == [k \in 1..16 |-> digit(m, 15 + k)]

\* m + (n << 32) for m below 2**32
join64(m, n) == low32(m) \o n

\* A wide plug-in (encoder.hexa = True) whose decoder inverts its encoder:
\* every base-4 digit of the 32-bit value is shifted by the key's shift at
\* the position.
wide_encoder(w, pos, k) ==
    [i \in 1..16 |-> (digit(w, i - 1) + caesar_shift(pos, k)) % 4]

wide_decoder(w, pos, k) ==
    [i \in 1..16 |-> (digit(w, i - 1) - caesar_shift(pos, k)) % 4]

\* A double-width plug-in (hexa and double_count): the encoder returns a
\* 64-bit value, the shifted value in its low half and the position and the
\* value's low digits in its high half; the decoder reads the low half back.
wide2_encoder(w, pos, k) ==
    wide_encoder(w, pos, k) \o [i \in 1..16 |-> (digit(w, i - 1) + pos + 1) % 4]

wide2_decoder(w, pos, k) == wide_decoder(low32(w), pos, k)

\* the plug-ins: the attributes CryptoBox.__init__ looks for
Plugins == {[name |-> "caesar", has_hexa |-> FALSE, has_double |-> FALSE],
            [name |-> "wide", has_hexa |-> TRUE, has_double |-> FALSE],
            [name |-> "wide2", has_hexa |-> TRUE, has_double |-> TRUE]}

\* self._encoder(n, pos, key)
encoder(name, n, pos, k) ==
    CASE name = "caesar" -> caesar_encoder(n, pos, k)
      [] name = "wide" -> wide_encoder(n, pos, k)
      [] name = "wide2" -> wide2_encoder(n, pos, k)

\* self._decoder(n, pos, key)
decoder(name, n, pos, k) ==
    CASE name = "caesar" -> caesar_decoder(n, pos, k)
      [] name = "wide" -> wide_decoder(n, pos, k)
      [] name = "wide2" -> wide2_decoder(n, pos, k)

-----------------------------------------------------------------------------
(* cryptobox.py *)

\* a call self._encoder(n, pos, key) or self._decoder(n, pos, key)
PluginCall(n, pos) == [n |-> n, pos |-> pos]

\* the loop of encrypt, from position pos on: st = [cipher_code, calls]
RECURSIVE encrypt_loop(_, _, _, _, _, _)
encrypt_loop(name, dbl, code, pos, k, st) ==
    IF Len(st.cipher_code) >= 0 /\ pos < Len(code)
    THEN LET m == encoder(name, code[pos + 1], pos, k)
         IN  encrypt_loop(name, dbl, code, pos + 1, k,
                 [cipher_code |->
                      IF dbl THEN st.cipher_code \o <<low32(m), high32(m)>>
                             ELSE Append(st.cipher_code, m),
                  calls |-> Append(st.calls, PluginCall(code[pos + 1], pos))])
    ELSE st

\* cipher_msg[: sum(wlen) % 16 - 16]: the stop index is negative
crop_filler(cipher_msg, wl) ==
    LET stop == Len(cipher_msg) + ((SumSeq(wl) % 16) - 16)
    IN  Slice(cipher_msg, 0, stop)

\* the locals of CryptoBox.encrypt once its loop is over
encrypt_locals(name, hx, dbl, m, k) ==
    LET e == encode_wrapped(m, hx)
        st == encrypt_loop(name, dbl, e.code, 0, k,
                           [cipher_code |-> <<>>, calls |-> <<>>])
    IN  [code |-> e.code, wlen |-> e.wlen, plainchrs |-> e.plainchrs,
         cipher_code |-> st.cipher_code, calls |-> st.calls]

\* CryptoBox.encrypt
encrypt(name, hx, dbl, m, k) ==
    LET l == encrypt_locals(name, hx, dbl, m, k)
        cipher_msg == decode_and_wrap(l.cipher_code, l.wlen, l.plainchrs, hx,
                                      FALSE)
    IN  IF hx THEN cipher_msg \o Fill(" ", l.wlen[Len(l.wlen)])
        ELSE crop_filler(cipher_msg, l.wlen)

\* mutant: the decoder is handed the position of the entry, not of the pair
pair_position_of_entry(pos) == pos

\* pos // 2
pair_position(pos) == pos \div 2

\* the double_count loop of decrypt: st = [code, m, calls]
RECURSIVE decrypt_pairs(_, _, _, _, _)
decrypt_pairs(name, cipher_code_, pos, k, st) ==
    IF Len(st.code) >= 0 /\ pos < Len(cipher_code_)
    THEN LET n == cipher_code_[pos + 1]
         IN  decrypt_pairs(name, cipher_code_, pos + 1, k,
                 IF pos % 2 = 1
                 THEN [code |-> Append(st.code,
                                    decoder(name, join64(st.m, n),
                                            pair_position(pos), k)),
                       m |-> st.m,
                       calls |-> Append(st.calls,
                                    PluginCall(join64(st.m, n),
                                               pair_position(pos)))]
                 ELSE [code |-> st.code, m |-> n, calls |-> st.calls])
    ELSE st

\* the single-width loop of decrypt
decrypt_singles(name, cipher_code_, k) ==
    [code |-> [i \in 1..Len(cipher_code_) |->
                   decoder(name, cipher_code_[i], i - 1, k)],
     calls |-> [i \in 1..Len(cipher_code_) |->
                   PluginCall(cipher_code_[i], i - 1)]]

\* the stripped cipher text of decrypt
decrypt_strip(cipher_msg) == strip(cipher_msg, " ")

\* the locals of CryptoBox.decrypt once its loop is over
decrypt_locals(name, hx, dbl, c, k) ==
    LET stripped == IF hx THEN decrypt_strip(c) ELSE c
        npad == Len(c) - Len(stripped)
        e == encode_wrapped(stripped, hx)
        st == IF dbl
              THEN decrypt_pairs(name, e.code, 0, k,
                                 [code |-> <<>>, m |-> <<>>, calls |-> <<>>])
              ELSE decrypt_singles(name, e.code, k)
    IN  [cipher_code |-> e.code,
         wlen |-> IF hx THEN Append(e.wlen, npad) ELSE e.wlen,
         plainchrs |-> e.plainchrs, code |-> st.code, calls |-> st.calls]

\* CryptoBox.decrypt
decrypt(name, hx, dbl, c, k) ==
    LET l == decrypt_locals(name, hx, dbl, c, k)
    IN  decode_and_wrap(l.code, l.wlen, l.plainchrs, hx, TRUE)

-----------------------------------------------------------------------------
(* The CryptoBox as a state machine: a box is made for a plug-in, a        *)
(* message is encrypted, and the cipher text is decrypted with the same    *)
(* key.                                                                    *)

BoxKeys == {<<"A">>, <<"=", "£">>}

\* CryptoBox.__init__, called with the defaults hexa = False and
\* double_count = False
InitBox ==
    /\ pc = "box"
    /\ msg \in Messages
    /\ key \in BoxKeys
    /\ \E p \in Plugins :
          /\ self_encoder = p.name
          /\ self_hexa = (IF p.has_hexa THEN TRUE ELSE FALSE)
          /\ self_double_count = (IF p.has_double THEN TRUE ELSE FALSE)
    /\ cipher_code = Nothing /\ self_calls = Nothing
    /\ NoSplit /\ NoNumber /\ NoPerm
    /\ out = Nothing /\ out2 = Nothing

Encrypt ==
    /\ pc = "box"
    /\ LET l == encrypt_locals(self_encoder, self_hexa, self_double_count,
                               msg, key)
       IN  cipher_code' = l.cipher_code /\ self_calls' = l.calls
    /\ out' = encrypt(self_encoder, self_hexa, self_double_count, msg, key)
    /\ pc' = "encrypted"
    /\ UNCHANGED <<msg, key, selfVars, splitVars, numVars, out2, permVars>>

Decrypt ==
    /\ pc = "encrypted"
    /\ LET l == decrypt_locals(self_encoder, self_hexa, self_double_count,
                               out, key)
       IN  cipher_code' = l.cipher_code /\ self_calls' = l.calls
    /\ out' = decrypt(self_encoder, self_hexa, self_double_count, out, key)
    /\ out2' = out
    /\ pc' = "decrypted"
    /\ UNCHANGED <<msg, key, selfVars, splitVars, numVars, permVars>>

NextBox == Encrypt \/ Decrypt

SpecBox == InitBox /\ [][NextBox]_vars

\* C1 (as claimed): with a single-width, non-wide plug-in whose decoder
\* inverts its encoder, decrypt(encrypt(m, k), k) = m for every message m
C1_NarrowRoundTrip ==
    (pc = "decrypted" /\ ~self_hexa /\ ~self_double_count) => out = msg

\* what the code does: the round trip holds when the number of alphabet
\* characters of m is no multiple of 16; when it is, encrypt drops the last
\* 16 characters of the cipher text
C1_NarrowRoundTripUnaligned ==
    (pc = "decrypted" /\ ~self_hexa /\ ~self_double_count
        /\ AlphaCount(msg) % 16 # 0) => out = msg

\* C2 (as claimed): with a wide plug-in whose decoder inverts its encoder,
\* decrypt(encrypt(m, k), k) = m for every message m, wherever its spaces
\* and other non-alphabet characters are
C2_WideRoundTrip == (pc = "decrypted" /\ self_hexa) => out = msg

\* what the code does: the round trip holds for a message that neither
\* starts nor ends with a space
C2_WideRoundTripNoOuterSpace ==
    (pc = "decrypted" /\ self_hexa /\ msg # <<>>
        /\ msg[1] # " " /\ msg[Len(msg)] # " ") => out = msg

\* C11: in double-width mode encrypt calls the encoder once per code value
\* n at its position i and emits two entries for it, at 2i the low 32 bits
\* and at 2i+1 the bits above them of encoder(n, i, key); decrypt takes its
\* entries in pairs, hands the decoder low + high * 2^32 of the entries 2i
\* and 2i+1 with the position i, and that value is what the encoder
\* returned at position i
C11_DoubleWidthPairs ==
    self_double_count =>
        LET code == encode_wrapped(msg, self_hexa).code
            wide(i) == encoder(self_encoder, code[i + 1], i, key)
        IN  /\ pc = "encrypted" =>
                  /\ Len(cipher_code) = 2 * Len(code)
                  /\ Len(self_calls) = Len(code)
                  /\ \A i \in 0..(Len(code) - 1) :
                        /\ self_calls[i + 1] = [n |-> code[i + 1], pos |-> i]
                        /\ cipher_code[2 * i + 1] = SubSeq(wide(i), 1, 16)
                        /\ cipher_code[2 * i + 2] =
                               SubSeq(wide(i), 17, Len(wide(i)))
            /\ pc = "decrypted" =>
                  /\ Len(self_calls) = Len(cipher_code) \div 2
                  /\ Len(self_calls) = Len(code)
                  /\ \A i \in 0..(Len(self_calls) - 1) :
                        /\ self_calls[i + 1] =
                               [n |-> cipher_code[2 * i + 1]
                                         \o cipher_code[2 * i + 2],
                                pos |-> i]
                        /\ self_calls[i + 1].n = wide(i)

\* a message of two blocks was encrypted and decrypted by the double-width
\* plug-in: six decoder calls, the halves of a pair differ
C11_Witness ==
    /\ pc = "decrypted" /\ self_double_count
    /\ Len(cipher_code) = 12 /\ Len(self_calls) = 6
    /\ self_calls[6].pos = 5
    /\ cipher_code[3] # cipher_code[4]

\* the encrypt side of the same case: twelve entries for six code values
C11_WitnessEncrypted ==
    /\ pc = "encrypted" /\ self_double_count
    /\ Len(cipher_code) = 12 /\ Len(self_calls) = 6
    /\ cipher_code[11] # cipher_code[12]

-----------------------------------------------------------------------------
(* The whole engine: any of the components, started on its inputs *)

Init ==
    \/ InitSplit \/ InitCodec \/ InitNumber \/ InitPerm \/ InitCipher
    \/ InitThreads \/ InitBox

Next ==
    \/ NextSplit \/ NextCodec \/ NextNumber \/ NextPerm \/ NextCipher
    \/ NextThreads \/ NextBox

Spec == Init /\ [][Next]_vars

====
